---------------------------- MODULE Spec2Model ----------------------------
(***************************************************************************)
(* Warehouse-Cluster Geo Dashboard (src/dashboard.py).                     *)
(*                                                                         *)
(* The program is a Streamlit script: every user event (a file is          *)
(* uploaded, replaced or removed, a warehouse is picked in the selectbox)  *)
(* re-executes the whole script from top to bottom.  One action of this    *)
(* module is one such event together with the complete script run that it  *)
(* triggers.  The variables are the script's variables and what the run    *)
(* put on the page.                                                        *)
(*                                                                         *)
(* Data representation                                                     *)
(*   - a table (DataFrame) is a sequence of records, one per CSV row; the  *)
(*     row number is the pandas index label (RangeIndex of read_csv);      *)
(*   - a subset of a table (wh_data, one group of a groupby) is the        *)
(*     ascending sequence of the index labels it keeps;                    *)
(*   - a label cell is a string; the string NaN is a missing cell          *)
(*     (pd.read_csv turns an empty cell, "NaN", "NA", ... into NaN);       *)
(*   - a numeric cell is an integer (a fixed-point reading of the float);  *)
(*     numeric cells are always present in the tables enumerated here;     *)
(*   - a mean is the exact fraction <<num, den>> in lowest terms, and      *)
(*     <<0, 0>> is the NaN that the mean of no values gives.               *)
(* Floating-point rounding and the ".2f" hover formatting are not          *)
(* modelled.                                                               *)
(***************************************************************************)
EXTENDS Integers, Sequences, FiniteSets

VARIABLES
    uploaded,         \* uploaded_file is not None
    df,               \* the parsed table (<<>> while nothing was parsed)
    pick,             \* the selectbox widget's state: index picked, 0 = untouched
    warehouses,       \* options handed to st.selectbox
    selected,         \* selected_warehouse
    wh_data,          \* index labels of the rows kept by the filter
    cluster_data,     \* centroid table
    cluster_summary,  \* summary table
    fig,              \* the traces of the figure, in the order they were added
    ui,               \* the st.* elements the run put on the page, in order
    computed          \* the script variables the run assigned

vars == <<uploaded, df, pick, warehouses, selected, wh_data, cluster_data,
          cluster_summary, fig, ui, computed>>

-----------------------------------------------------------------------------
(* Bounds and input domains *)

MaxRows == 2

NaN == "NaN"
None == "None"

WarehouseNames == {"A", "B"}
\* the k_means labels in ascending order (groupby sorts its keys)
KMeansSorted == <<"k0", "k1">>
KMeansLabels == {KMeansSorted[i] : i \in 1..Len(KMeansSorted)}

\* The numeric cells of a row.  The columns differ from one another in each
\* profile, so that an aggregate taken over the wrong column shows.
BaseMeasure ==
    [latitude |-> 1, longitude |-> 7, partner_gmv |-> 100,
     distance_km |-> 4, dist_from_wh |-> 5]

Measures ==
    { BaseMeasure,
      [latitude |-> 2, longitude |-> 4, partner_gmv |-> 50,
       distance_km |-> 7, dist_from_wh |-> 8] }

\* warehouse coordinates as they stand in the row (wh_lat, wh_long columns)
WhLat(w) == IF w = "A" THEN 10 ELSE IF w = "B" THEN 30 ELSE 0
WhLong(w) == IF w = "A" THEN 20 ELSE IF w = "B" THEN 40 ELSE 0

MkRow(w, k, s, c, m) ==
    [warehouse_name |-> w, k_means |-> k, cx_status |-> s, customer_id |-> c,
     latitude |-> m.latitude, longitude |-> m.longitude,
     wh_lat |-> WhLat(w), wh_long |-> WhLong(w),
     partner_gmv |-> m.partner_gmv, distance_km |-> m.distance_km,
     dist_from_wh |-> m.dist_from_wh, last_order_date |-> "2024-01-01"]

\* Rows whose warehouse and cluster cells range over every value, missing
\* included.
LabelRows ==
    { MkRow(w, k, s, "c1", BaseMeasure) :
        w \in WarehouseNames \cup {NaN}, k \in KMeansLabels \cup {NaN},
        s \in {"Transacting", "Non-Transacting"} }

\* Rows whose status and customer cells range over every value: a status
\* outside the two recognised ones, a missing customer_id.
CountRows ==
    { MkRow("A", k, s, c, BaseMeasure) :
        k \in KMeansLabels,
        s \in {"Transacting", "Non-Transacting", "Churned"},
        c \in {"c1", NaN} }

\* Rows whose numeric cells vary.
MeasureRows ==
    { MkRow(w, k, s, "c1", m) :
        w \in WarehouseNames, k \in KMeansLabels,
        s \in {"Transacting", "Non-Transacting"}, m \in Measures }

TablesOf(Rows, n) == UNION { [1..l -> Rows] : l \in 0..n }

-----------------------------------------------------------------------------
(* pandas / Python helpers *)

RECURSIVE SumSeq(_)
SumSeq(xs) == IF xs = <<>> THEN 0 ELSE Head(xs) + SumSeq(Tail(xs))

RECURSIVE GCD(_, _)
GCD(a, b) == IF b = 0 THEN a ELSE GCD(b, a % b)

\* Series.mean(): sum / count, NaN (<<0, 0>>) for an empty series
\* (faulty variant: integer division, sum // count)
MeanFloorDiv(xs) ==
    IF Len(xs) = 0 THEN <<0, 0>> ELSE <<SumSeq(xs) \div Len(xs), 1>>

Mean(xs) ==
    IF Len(xs) = 0 THEN <<0, 0>>
    ELSE LET s == SumSeq(xs)
             g == GCD(s, Len(xs))
         IN  <<s \div g, Len(xs) \div g>>

\* a float read as a fraction
Float(n) == <<n, 1>>

\* elementwise ==: a missing cell equals nothing, and nothing equals None
PdEq(cell, v) == cell # NaN /\ v # NaN /\ v # None /\ cell = v

\* Series.unique(): the distinct values in order of first appearance; all
\* missing cells are one value
\* (faulty variant: the column as it stands, no deduplication)
UniqueKeepAll(xs) == xs

RECURSIVE Unique(_)
Unique(xs) ==
    IF xs = <<>> THEN <<>>
    ELSE LET front == Unique(SubSeq(xs, 1, Len(xs) - 1))
             last == xs[Len(xs)]
         IN  IF \E i \in 1..Len(front) : front[i] = last
             THEN front ELSE Append(front, last)

\* Series.count(): the number of cells that are not missing
Count(xs) == Cardinality({i \in 1..Len(xs) : xs[i] # NaN})

\* list.count(v)
ListCount(xs, v) == Cardinality({i \in 1..Len(xs) : xs[i] = v})

\* column c of the rows idx of table t
Col(t, idx, c) == [j \in 1..Len(idx) |-> t[idx[j]][c]]

\* the rows of idx whose column c equals v
Where(t, idx, c, v) == SelectSeq(idx, LAMBDA i : PdEq(t[i][c], v))

-----------------------------------------------------------------------------
(* The script, stage by stage *)

AllRows(t) == [i \in 1..Len(t) |-> i]

\* warehouses = df['warehouse_name'].unique()
Warehouses(t) == Unique(Col(t, AllRows(t), "warehouse_name"))

\* st.selectbox("Select Warehouse", warehouses): the option the user picked,
\* the first option while the widget is untouched, None without options
Selectbox(options, p) ==
    IF options = <<>> THEN None
    ELSE IF p \in 1..Len(options) THEN options[p]
    ELSE options[1]

\* wh_data = df[df['warehouse_name'] == selected_warehouse]
WhData(t, sel) == Where(t, AllRows(t), "warehouse_name", sel)

\* the keys of wh_data.groupby('k_means'): the distinct labels that occur,
\* ascending; rows whose key is missing are dropped (dropna=True)
GroupKeys(t, idx) ==
    SelectSeq(KMeansSorted,
              LAMBDA k : \E j \in 1..Len(idx) : PdEq(t[idx[j]].k_means, k))

\* the rows of one group
Group(t, idx, k) == Where(t, idx, "k_means", k)

\* one row of cluster_data
ClusterDataRow(t, idx, k) ==
    LET g == Group(t, idx, k)
        statuses == Col(t, g, "cx_status")
    IN  [k_means |-> k,
         latitude |-> Mean(Col(t, g, "latitude")),
         longitude |-> Mean(Col(t, g, "longitude")),
         partner_gmv |-> SumSeq(Col(t, g, "partner_gmv")),
         distance_km |-> Mean(Col(t, g, "distance_km")),
         customer_id |-> Count(Col(t, g, "customer_id")),
         cx_status |-> statuses,
         transacting_count |-> ListCount(statuses, "Transacting"),
         non_transacting_count |-> ListCount(statuses, "Non-Transacting")]

\* cluster_data = wh_data.groupby('k_means').agg({...}).reset_index()
ClusterData(t, idx) ==
    LET keys == GroupKeys(t, idx)
    IN  [n \in 1..Len(keys) |-> ClusterDataRow(t, idx, keys[n])]

\* x[wh_data.loc[x.index, 'cx_status'] == status].mean() for column c of a group
\* (faulty variant: an empty selection averaged to 0 instead of NaN)
StatusMeanFillZero(t, g, c, status) ==
    LET xs == Col(t, Where(t, g, "cx_status", status), c)
    IN  IF xs = <<>> THEN <<0, 1>> ELSE Mean(xs)

StatusMean(t, g, c, status) == Mean(Col(t, Where(t, g, "cx_status", status), c))

\* (x == status).sum() over the cx_status column of a group
StatusCount(t, g, status) == Len(Where(t, g, "cx_status", status))

\* one row of cluster_summary
ClusterSummaryRow(t, idx, k) ==
    LET g == Group(t, idx, k)
    IN  [k_means |-> k,
         transacting_count |-> StatusCount(t, g, "Transacting"),
         non_transacting_count |-> StatusCount(t, g, "Non-Transacting"),
         avg_pgmv_transacting |-> StatusMean(t, g, "partner_gmv", "Transacting"),
         avg_pgmv_nontransacting |->
             StatusMean(t, g, "partner_gmv", "Non-Transacting"),
         avg_dist_transacting |-> StatusMean(t, g, "dist_from_wh", "Transacting"),
         avg_dist_nontransacting |->
             StatusMean(t, g, "dist_from_wh", "Non-Transacting")]

\* cluster_summary = wh_data.groupby('k_means').agg(...).reset_index()
ClusterSummary(t, idx) ==
    LET keys == GroupKeys(t, idx)
    IN  [n \in 1..Len(keys) |-> ClusterSummaryRow(t, idx, keys[n])]

\* the centroid trace: one marker per row of cluster_data
CentroidTrace(cd) ==
    [name |-> "Clusters", mode |-> "markers+text",
     lat |-> [n \in 1..Len(cd) |-> cd[n].latitude],
     lon |-> [n \in 1..Len(cd) |-> cd[n].longitude],
     cluster |-> [n \in 1..Len(cd) |-> cd[n].k_means],
     customer |-> <<>>]

\* the line traces: one per row of cluster_data, warehouse -> centroid
LineTraces(cd, whlat, whlong) ==
    [n \in 1..Len(cd) |->
        [name |-> "", mode |-> "lines",
         lat |-> <<Float(whlat), cd[n].latitude>>,
         lon |-> <<Float(whlong), cd[n].longitude>>,
         cluster |-> <<>>, customer |-> <<>>]]

\* a customer trace: the rows of wh_data whose cx_status is status
CustomerTrace(t, idx, status, label) ==
    LET rows == Where(t, idx, "cx_status", status)
    IN  [name |-> label, mode |-> "markers",
         lat |-> [j \in 1..Len(rows) |-> Float(t[rows[j]].latitude)],
         lon |-> [j \in 1..Len(rows) |-> Float(t[rows[j]].longitude)],
         cluster |-> Col(t, rows, "k_means"),
         customer |-> Col(t, rows, "customer_id")]

\* fig = go.Figure() and the fig.add_trace calls, in program order
\* (faulty variant: the customer layers added before centroids and lines)
FigureCustomersFirst(t, idx, cd) ==
    <<CustomerTrace(t, idx, "Transacting", "Transacting CX"),
      CustomerTrace(t, idx, "Non-Transacting", "Non-Transacting CX"),
      CentroidTrace(cd)>>
      \o LineTraces(cd, t[idx[1]].wh_lat, t[idx[1]].wh_long)

Figure(t, idx, cd) ==
    <<CentroidTrace(cd)>>
      \o LineTraces(cd, t[idx[1]].wh_lat, t[idx[1]].wh_long)
      \o <<CustomerTrace(t, idx, "Transacting", "Transacting CX"),
           CustomerTrace(t, idx, "Non-Transacting", "Non-Transacting CX")>>

\* what every run shows before it looks at the upload
PageHead == <<"markdown_css", "title", "file_uploader">>

\* else: st.info("Please upload a CSV file to continue.")
\* (faulty variant: the guard is missing and pd.read_csv(None) raises)
NoFileCrash ==
    [df |-> <<>>, warehouses |-> <<>>, selected |-> None, wh_data |-> <<>>,
     cluster_data |-> <<>>, cluster_summary |-> <<>>, fig |-> <<>>,
     ui |-> PageHead \o <<"exception">>, computed |-> {}]

NoFile ==
    [df |-> <<>>, warehouses |-> <<>>, selected |-> None, wh_data |-> <<>>,
     cluster_data |-> <<>>, cluster_summary |-> <<>>, fig |-> <<>>,
     ui |-> PageHead \o <<"info">>, computed |-> {}]

\* if wh_data.empty: st.warning("No cluster data for this warehouse."); st.stop()
\* (faulty variant: st.stop() is missing and wh_data.iloc[0] raises)
EmptySelectionNoStop(t, opts, sel, idx) ==
    [df |-> t, warehouses |-> opts, selected |-> sel, wh_data |-> idx,
     cluster_data |-> <<>>, cluster_summary |-> <<>>, fig |-> <<>>,
     ui |-> PageHead \o <<"selectbox", "warning", "exception">>,
     computed |-> {"df", "warehouses", "selected_warehouse", "wh_data"}]

EmptySelection(t, opts, sel, idx) ==
    [df |-> t, warehouses |-> opts, selected |-> sel, wh_data |-> idx,
     cluster_data |-> <<>>, cluster_summary |-> <<>>, fig |-> <<>>,
     ui |-> PageHead \o <<"selectbox", "warning">>,
     computed |-> {"df", "warehouses", "selected_warehouse", "wh_data"}]

\* the rest of the script: aggregation, figure, st.plotly_chart, st.dataframe
Rendered(t, opts, sel, idx) ==
    LET cd == ClusterData(t, idx)
    IN  [df |-> t, warehouses |-> opts, selected |-> sel, wh_data |-> idx,
         cluster_data |-> cd,
         cluster_summary |-> ClusterSummary(t, idx),
         fig |-> Figure(t, idx, cd),
         ui |-> PageHead \o <<"selectbox", "plotly_chart", "markdown_summary",
                              "dataframe">>,
         computed |-> {"df", "warehouses", "selected_warehouse", "wh_data",
                       "wh_lat", "wh_long", "cluster_data", "cluster_summary",
                       "fig", "transacting", "non_transacting"}]

\* One execution of the script: up says whether a file is uploaded, t is the
\* table pd.read_csv gives for it, p the selectbox widget's state.
Run(up, t, p) ==
    IF ~up THEN NoFile
    ELSE LET opts == Warehouses(t)
             sel == Selectbox(opts, p)
             idx == WhData(t, sel)
         IN  IF idx = <<>> THEN EmptySelection(t, opts, sel, idx)
             ELSE Rendered(t, opts, sel, idx)

\* the script's variables after the run r
Shows(r) ==
    /\ df' = r.df
    /\ warehouses' = r.warehouses
    /\ selected' = r.selected
    /\ wh_data' = r.wh_data
    /\ cluster_data' = r.cluster_data
    /\ cluster_summary' = r.cluster_summary
    /\ fig' = r.fig
    /\ ui' = r.ui
    /\ computed' = r.computed

-----------------------------------------------------------------------------
(* Events *)

\* The page is opened: the script runs once with no file.
Init ==
    /\ uploaded = FALSE
    /\ pick = 0
    /\ df = <<>>
    /\ warehouses = <<>>
    /\ selected = None
    /\ wh_data = <<>>
    /\ cluster_data = <<>>
    /\ cluster_summary = <<>>
    /\ fig = <<>>
    /\ ui = NoFile.ui
    /\ computed = {}

\* A file is put into the empty uploader; the selectbox is new and untouched.
Upload(Rows) ==
    /\ ~uploaded
    /\ \E t \in TablesOf(Rows, MaxRows) :
        /\ uploaded' = TRUE
        /\ pick' = 0
        /\ Shows(Run(TRUE, t, 0))

\* The file in the uploader is replaced by another one (here: one of at most
\* one record).  The selectbox keeps its state when it is given the same
\* options and is a new widget otherwise.
Replace(Rows) ==
    /\ uploaded
    /\ \E t \in TablesOf(Rows, 1) :
        /\ uploaded' = TRUE
        /\ pick' = IF Warehouses(t) = warehouses THEN pick ELSE 0
        /\ Shows(Run(TRUE, t, pick'))

\* The user picks an option of the selectbox.
Select ==
    /\ uploaded
    /\ \E i \in 1..Len(warehouses) :
        /\ uploaded' = TRUE
        /\ pick' = i
        /\ Shows(Run(TRUE, df, i))

\* The user removes the file from the uploader.
Remove ==
    /\ uploaded
    /\ uploaded' = FALSE
    /\ pick' = 0
    /\ Shows(Run(FALSE, <<>>, 0))

\* tables whose warehouse and cluster cells vary (missing cells included)
Next ==
    \/ Upload(LabelRows)
    \/ Replace(LabelRows)
    \/ Select
    \/ Remove

Spec == Init /\ [][Next]_vars

\* tables whose status and customer cells vary
NextCounts ==
    \/ Upload(CountRows)
    \/ Replace(CountRows)
    \/ Select
    \/ Remove

SpecCounts == Init /\ [][NextCounts]_vars

\* tables whose numeric cells vary
NextMeasures ==
    \/ Upload(MeasureRows)
    \/ Replace(MeasureRows)
    \/ Select
    \/ Remove

SpecMeasures == Init /\ [][NextMeasures]_vars

-----------------------------------------------------------------------------
(* Properties.  They are stated over the raw table df, independently of the *)
(* helpers the script model is built from.                                  *)

\* the run went past the empty-selection guard
RenderedRun == uploaded /\ wh_data # <<>>

\* the index labels of wh_data, as a set
WhRows == {wh_data[j] : j \in 1..Len(wh_data)}

\* the rows of the raw table with warehouse w, cluster k (and status s)
RawRows(w, k) ==
    {i \in 1..Len(df) : df[i].warehouse_name = w /\ df[i].k_means = k}
RawStatusRows(w, k, s) == {i \in RawRows(w, k) : df[i].cx_status = s}

RECURSIVE RawSum(_, _)
RawSum(S, c) ==
    IF S = {} THEN 0
    ELSE LET i == CHOOSE x \in S : TRUE
         IN  df[i][c] + RawSum(S \ {i}, c)

\* the fraction m is the arithmetic mean of column c over the rows S
IsMeanOf(m, S, c) == m[2] > 0 /\ m[1] * Cardinality(S) = m[2] * RawSum(S, c)

RECURSIVE SeqSum(_, _)
SeqSum(tbl, c) ==
    IF tbl = <<>> THEN 0 ELSE Head(tbl)[c] + SeqSum(Tail(tbl), c)

\* the position at which value v first stands in the warehouse_name column
FirstAt(v) ==
    CHOOSE j \in 1..Len(df) :
        /\ df[j].warehouse_name = v
        /\ \A i \in 1..(j - 1) : df[i].warehouse_name # v

\* C1: the options of the warehouse selector are exactly the distinct values
\* of the warehouse_name column, each once, in order of first appearance.
C1_OptionsAreDistinctWarehouses ==
    uploaded =>
        /\ {warehouses[n] : n \in 1..Len(warehouses)}
             = {df[j].warehouse_name : j \in 1..Len(df)}
        /\ \A m, n \in 1..Len(warehouses) :
             m < n => /\ warehouses[m] # warehouses[n]
                      /\ FirstAt(warehouses[m]) < FirstAt(warehouses[n])

C1_Witness ==
    /\ uploaded
    /\ Len(df) = 2
    /\ df[1].warehouse_name = "B"
    /\ df[2].warehouse_name = "A"
    /\ warehouses = <<"B", "A">>

\* C2: a run whose filtered subset is empty shows the warning and stops: it
\* shows nothing after the warning, computes no aggregate, builds no figure
\* and renders neither the map nor the summary table.
C2_EmptySelectionStops ==
    (uploaded /\ wh_data = <<>>) =>
        /\ ui = PageHead \o <<"selectbox", "warning">>
        /\ computed \cap {"cluster_data", "cluster_summary", "fig"} = {}
        /\ cluster_data = <<>>
        /\ cluster_summary = <<>>
        /\ fig = <<>>

C2_Witness ==
    /\ uploaded
    /\ Len(df) = 2
    /\ wh_data = <<>>
    /\ ui[Len(ui)] = "warning"

\* C3: a run without an uploaded file shows only the 'please upload' message
\* after the page head: it parses no table, evaluates no selector, computes
\* no aggregate and renders neither the map nor the summary table.
C3_NoFileIsIdle ==
    ~uploaded =>
        /\ ui = PageHead \o <<"info">>
        /\ computed = {}
        /\ df = <<>>
        /\ warehouses = <<>>
        /\ selected = None
        /\ cluster_data = <<>>
        /\ cluster_summary = <<>>
        /\ fig = <<>>

C3_Witness == ~uploaded /\ ui[Len(ui)] = "info"

\* C4: whenever a warehouse is selected, the selected value is one of the
\* values of the warehouse_name column and the filter keeps at least one row.
C4_SelectionHasRows ==
    (uploaded /\ selected # None) =>
        /\ \E j \in 1..Len(df) : df[j].warehouse_name = selected
        /\ wh_data # <<>>

\* C5: in every row of the centroid table the two status counts add up to at
\* most the count column, with equality exactly when every status of the
\* cluster is one of the two recognised strings.
C5_StatusCountsWithinMemberCount ==
    \A n \in 1..Len(cluster_data) :
        LET row == cluster_data[n]
            both == row.transacting_count + row.non_transacting_count
        IN  /\ both <= row.customer_id
            /\ both = row.customer_id <=>
                 \A j \in 1..Len(row.cx_status) :
                     row.cx_status[j] \in {"Transacting", "Non-Transacting"}

\* C6: the summary table's status counts of a cluster equal the number of raw
\* rows of that warehouse, cluster and status, and over all clusters they add
\* up to the number of points of the two customer layers.
C6_SummaryCountsMatchRawRows ==
    RenderedRun =>
        /\ \A n \in 1..Len(cluster_summary) :
             LET row == cluster_summary[n]
             IN  /\ row.transacting_count = Cardinality(
                        RawStatusRows(selected, row.k_means, "Transacting"))
                 /\ row.non_transacting_count = Cardinality(
                        RawStatusRows(selected, row.k_means, "Non-Transacting"))
        /\ SeqSum(cluster_summary, "transacting_count")
             = Len(fig[Len(fig) - 1].lat)
        /\ SeqSum(cluster_summary, "non_transacting_count")
             = Len(fig[Len(fig)].lat)

C9_TraceOrder ==
    RenderedRun =>
        LET clusters == {df[i].k_means : i \in WhRows} \ {NaN}
            nc == Cardinality(clusters)
            wh == df[wh_data[1]]
        IN  /\ Len(fig) = 1 + nc + 2
            /\ Len(cluster_data) = nc
            /\ fig[1].name = "Clusters"
            /\ fig[1].mode = "markers+text"
            /\ Len(fig[1].lat) = nc
            /\ \A n \in 1..nc :
                 /\ fig[1 + n].mode = "lines"
                 /\ fig[1 + n].lat = <<<<wh.wh_lat, 1>>, cluster_data[n].latitude>>
                 /\ fig[1 + n].lon = <<<<wh.wh_long, 1>>, cluster_data[n].longitude>>
            /\ fig[nc + 2].name = "Transacting CX"
            /\ fig[nc + 2].mode = "markers"
            /\ fig[nc + 3].name = "Non-Transacting CX"
            /\ fig[nc + 3].mode = "markers"

C9_Witness ==
    /\ RenderedRun
    /\ Len(cluster_data) = 2
    /\ Len(fig) = 5
    /\ Len(fig[4].lat) = 1
    /\ Len(fig[5].lat) = 1

\* C10: the member counts of the centroid table add up to the number of rows
\* of the filtered subset, and every customer point of the two customer
\* layers carries a cluster label that has a centroid marker and a row of the
\* summary table.
C10_EveryRecordInOneCluster ==
    RenderedRun =>
        /\ SeqSum(cluster_data, "customer_id") = Len(wh_data)
        /\ \A l \in {Len(fig) - 1, Len(fig)} :
             \A j \in 1..Len(fig[l].cluster) :
                 /\ \E n \in 1..Len(fig[1].cluster) :
                      fig[1].cluster[n] = fig[l].cluster[j]
                 /\ \E n \in 1..Len(cluster_summary) :
                      cluster_summary[n].k_means = fig[l].cluster[j]

=============================================================================
